---- MODULE Spec2Model ----
(***************************************************************************)
(* Model of the two queue monitors of this repository:                     *)
(*   src/examples/rq/monitor.py      QueueMonitor        (kind = "rq")     *)
(*   src/examples/celery/monitor.py  CeleryQueueMonitor  (kind = "celery") *)
(*                                                                         *)
(* Each monitor is one sequential loop.  A check is split at the points    *)
(* where the code blocks or reads the clock:                               *)
(*   "read"   the backend read (llen / scard / Worker.all / scan_iter)     *)
(*   "decide" the status test and the cooldown test (datetime.utcnow())    *)
(*   "post"   requests.post inside send_alert                              *)
(*   "record" self.last_alert[key] = datetime.utcnow()                     *)
(*   "sleep"  time.sleep(self.check_interval)                              *)
(* Time is counted in minutes.  The clock is non-decreasing and may        *)
(* advance between any two steps.                                          *)
(***************************************************************************)
EXTENDS Integers, Sequences, FiniteSets, TLC

\* ---------------------------------------------------------------- bounds
\* Horizon of the clock, in minutes.
MaxTime == 35
\* Largest value a backend read returns (queue length, failed count, workers).
MaxValue == 2
\* Configured check interval in minutes (constructor argument); the clock is
\* observed on this grid.
check_interval == 5

\* ------------------------------------------------------ program constants
\* timedelta(minutes=15) of check_queue_depth
DepthCooldown == 15
\* timedelta(minutes=30) of check_failed_jobs
FailedCooldown == 30
\* timedelta(minutes=5) of check_workers
WorkersCooldown == 5

\* Configurations the monitors are started with: the monitor, the queue list
\* passed to monitor() (one queue, one queue listed twice, two queues) and
\* queue_depth_threshold.  Each runs with and without a webhook.
Kinds == {"rq", "celery"}
Configs ==
    { [kind |-> "rq", queue_names |-> <<"a">>, threshold |-> 1],
      [kind |-> "rq", queue_names |-> <<"a", "a">>, threshold |-> 2],
      [kind |-> "celery", queue_names |-> <<"a", "b">>, threshold |-> 1],
      [kind |-> "celery", queue_names |-> <<"a", "a">>, threshold |-> 2] }

\* No status dict exists outside a check.
NoStatus == [metric |-> "none", value |-> 0, status |-> "none"]

VARIABLES
    kind,            \* which monitor runs
    queue_names,     \* argument of monitor()
    threshold,       \* self.queue_depth_threshold
    alert_webhook,   \* TRUE iff self.alert_webhook is set
    now,             \* datetime.utcnow(), minutes
    last_alert,      \* self.last_alert: dict key -> timestamp
    pc,              \* position of the loop
    qi,              \* index of queue_name in queue_names (0: Celery's global check)
    metric,          \* the check being run: "depth", "failed", "workers"
    status,          \* the status dict of the running check
    readFailed,      \* the backend read of the running check raised
    sentAt,          \* history: time of the last send_alert call per key
    postResult,      \* outcome of the last requests.post of the running check
    checked,         \* history: the checks started in the running cycle, in order
    interruptedAt    \* history: where the loop was when KeyboardInterrupt arrived

vars == <<kind, queue_names, threshold, alert_webhook, now, last_alert, pc, qi,
          metric, status, readFailed, sentAt, postResult, checked, interruptedAt>>

config == <<kind, queue_names, threshold, alert_webhook>>

\* ------------------------------------------------------------ pure parts

\* f"{queue_name}:depth", f"{queue_name}:failed", f"{queue_name}:workers";
\* the Celery monitor uses the single key "workers" for its worker check.
AlertKey(k, q, m) ==
    IF k = "celery" /\ m = "workers" THEN "workers" ELSE q \o ":" \o m

\* The timedelta each check compares against.
Cooldown(m) ==
    CASE m = "depth" -> DepthCooldown
      [] m = "failed" -> FailedCooldown
      [] m = "workers" -> WorkersCooldown

\* Variant of DepthStatus: the comparison is <= (a depth equal to the
\* threshold counts as ok).
DepthStatusInclusive(length, T) == IF length <= T THEN "ok" ELSE "alert"

\* "ok" if length < self.queue_depth_threshold else "alert"
DepthStatus(length, T) == IF length < T THEN "ok" ELSE "alert"

\* "ok" if failed_count == 0 else "warning"
FailedStatus(failed_count) == IF failed_count = 0 THEN "ok" ELSE "warning"

\* "ok" if len(workers) > 0 else "critical"
WorkersStatus(n) == IF n > 0 THEN "ok" ELSE "critical"

StatusOf(m, v, T) ==
    CASE m = "depth" -> DepthStatus(v, T)
      [] m = "failed" -> FailedStatus(v)
      [] m = "workers" -> WorkersStatus(v)

\* Variant of Breached: the failed-jobs test is failed_count >= 0.
BreachedAnyFailedCount(st) ==
    CASE st.metric = "depth" -> st.status = "alert"
      [] st.metric = "failed" -> st.value >= 0
      [] st.metric = "workers" -> st.status = "critical"
      [] OTHER -> FALSE

\* The test guarding the cooldown test: status["status"] == "alert",
\* failed_count > 0, status["status"] == "critical".
Breached(st) ==
    CASE st.metric = "depth" -> st.status = "alert"
      [] st.metric = "failed" -> st.value > 0
      [] st.metric = "workers" -> st.status = "critical"
      [] OTHER -> FALSE

\* Variant of ShouldAlert: the comparison is >= (an elapsed time equal to the
\* cooldown alerts).
ShouldAlertAtCooldown(la, key, t, cooldown) ==
    key \notin DOMAIN la \/ t - la[key] >= cooldown

\* Variant of ShouldAlert: the test for a missing timestamp is lost.
ShouldAlertRecordedOnly(la, key, t, cooldown) ==
    key \in DOMAIN la /\ t - la[key] > cooldown

\* Variant of ShouldAlert: a recorded timestamp never expires.
ShouldAlertOnce(la, key, t, cooldown) ==
    key \notin DOMAIN la

\* not last_alert_time or datetime.utcnow() - last_alert_time > timedelta(...)
ShouldAlert(la, key, t, cooldown) ==
    key \notin DOMAIN la \/ t - la[key] > cooldown

\* Variant of RecordAlert: the dict is rebuilt with the written key only.
RecordAlertFresh(la, key, t) ==
    [x \in {key} |-> t]

\* Variant of RecordAlert: the write touches every entry of the dict.
RecordAlertAll(la, key, t) ==
    [x \in DOMAIN la \cup {key} |-> t]

\* self.last_alert[key] = datetime.utcnow()
RecordAlert(la, key, t) ==
    [x \in DOMAIN la \cup {key} |-> IF x = key THEN t ELSE la[x]]

\* The queue the running check is about ("" for Celery's global check).
CurQueue == IF qi = 0 THEN "" ELSE queue_names[qi]
CurKey == AlertKey(kind, CurQueue, metric)

\* Variant of NextPos: the RQ loop body goes from the depth check straight to
\* the worker check.
NextPosSkipsFailed(k, names, i, m) ==
    IF k = "rq"
    THEN CASE m = "depth" -> [pc |-> "read", qi |-> i, metric |-> "workers"]
           [] m = "failed" -> [pc |-> "read", qi |-> i, metric |-> "workers"]
           [] m = "workers" ->
                IF i < Len(names)
                THEN [pc |-> "read", qi |-> i + 1, metric |-> "depth"]
                ELSE [pc |-> "sleep", qi |-> i, metric |-> m]
    ELSE CASE m = "depth" ->
                IF i < Len(names)
                THEN [pc |-> "read", qi |-> i + 1, metric |-> "depth"]
                ELSE [pc |-> "read", qi |-> 0, metric |-> "workers"]
           [] m = "workers" -> [pc |-> "sleep", qi |-> 0, metric |-> m]

\* The check that follows the running one in the loop body, or the sleep.
\*   rq:     for q: depth(q); failed(q); workers(q)      then sleep
\*   celery: for q: depth(q)       then check_workers()  then sleep
NextPos(k, names, i, m) ==
    IF k = "rq"
    THEN CASE m = "depth" -> [pc |-> "read", qi |-> i, metric |-> "failed"]
           [] m = "failed" -> [pc |-> "read", qi |-> i, metric |-> "workers"]
           [] m = "workers" ->
                IF i < Len(names)
                THEN [pc |-> "read", qi |-> i + 1, metric |-> "depth"]
                ELSE [pc |-> "sleep", qi |-> i, metric |-> m]
    ELSE CASE m = "depth" ->
                IF i < Len(names)
                THEN [pc |-> "read", qi |-> i + 1, metric |-> "depth"]
                ELSE [pc |-> "read", qi |-> 0, metric |-> "workers"]
           [] m = "workers" -> [pc |-> "sleep", qi |-> 0, metric |-> m]

Running == pc \in {"read", "decide", "post", "record", "sleep"}

\* ----------------------------------------------------------------- Init
\* State at the first iteration of `while True` in monitor().
Init ==
    /\ \E c \in Configs :
        /\ kind = c.kind
        /\ queue_names = c.queue_names
        /\ threshold = c.threshold
    /\ alert_webhook \in BOOLEAN
    /\ now = 0
    /\ last_alert = <<>>
    /\ pc = "read"
    /\ qi = 1
    /\ metric = "depth"
    /\ status = NoStatus
    /\ readFailed = FALSE
    /\ sentAt = <<>>
    /\ postResult = "none"
    /\ checked = <<>>
    /\ interruptedAt = "none"

\* -------------------------------------------------------------- actions

\* Return from the running check to the loop body.
Return ==
    LET p == NextPos(kind, queue_names, qi, metric) IN
    /\ pc' = p.pc
    /\ qi' = p.qi
    /\ metric' = p.metric
    /\ status' = NoStatus
    /\ readFailed' = FALSE
    /\ postResult' = "none"

\* The status dict a check builds from the value v it read.
StatusDict(m, v, T) == [metric |-> m, value |-> v, status |-> StatusOf(m, v, T)]

\* The backend read returns v and the status dict is built.
ReadValue(v) ==
    /\ pc = "read"
    /\ status' = StatusDict(metric, v, threshold)
    /\ checked' = Append(checked, <<qi, metric>>)
    /\ pc' = "decide"
    /\ UNCHANGED <<config, interruptedAt, now, last_alert, qi, metric, readFailed, sentAt, postResult>>

\* The backend read succeeds with any value.
ReadOk == \E v \in 0..MaxValue : ReadValue(v)

\* The backend read succeeds with a value that breaches.
ReadBreached ==
    \E v \in 0..MaxValue :
        /\ Breached(StatusDict(metric, v, threshold))
        /\ ReadValue(v)

\* The backend read raises.  redis.llen, redis.scard and Worker.all are not
\* inside any try block: the exception leaves the check, monitor() and the
\* `except KeyboardInterrupt` of __main__.
ReadRaises ==
    /\ pc = "read"
    /\ ~(kind = "celery" /\ metric = "workers")
    /\ pc' = "crashed"
    /\ readFailed' = TRUE
    /\ checked' = Append(checked, <<qi, metric>>)
    /\ UNCHANGED <<config, interruptedAt, now, last_alert, qi, metric, status, sentAt, postResult>>

\* Celery check_workers: scan_iter raises after yielding n keys; `except
\* Exception: pass` keeps the n keys collected so far.
ScanRaises ==
    /\ pc = "read"
    /\ kind = "celery" /\ metric = "workers"
    /\ \E n \in 0..MaxValue :
        status' = [metric |-> metric, value |-> n, status |-> WorkersStatus(n)]
    /\ readFailed' = TRUE
    /\ checked' = Append(checked, <<qi, metric>>)
    /\ pc' = "decide"
    /\ UNCHANGED <<config, interruptedAt, now, last_alert, qi, metric, sentAt, postResult>>

\* Variant of Decide: the timestamp is written only when a webhook is set.
DecideRecordsWithWebhookOnly ==
    /\ pc = "decide"
    /\ IF Breached(status) /\ ShouldAlert(last_alert, CurKey, now, Cooldown(metric))
       THEN /\ sentAt' = RecordAlert(sentAt, CurKey, now)
            /\ IF alert_webhook
               THEN /\ pc' = "post"
                    /\ UNCHANGED <<qi, metric, status, readFailed, postResult>>
               ELSE Return
       ELSE /\ Return
            /\ UNCHANGED sentAt
    /\ UNCHANGED <<config, interruptedAt, now, last_alert, checked>>

\* The status test and the cooldown test; when both pass send_alert is called
\* (the message is printed) and, with a webhook set, the POST is next.
Decide ==
    /\ pc = "decide"
    /\ IF Breached(status) /\ ShouldAlert(last_alert, CurKey, now, Cooldown(metric))
       THEN /\ sentAt' = RecordAlert(sentAt, CurKey, now)
            /\ pc' = IF alert_webhook THEN "post" ELSE "record"
            /\ UNCHANGED <<qi, metric, status, readFailed, postResult>>
       ELSE /\ Return
            /\ UNCHANGED sentAt
    /\ UNCHANGED <<config, interruptedAt, now, last_alert, checked>>

\* requests.post returns.
PostOk ==
    /\ pc = "post"
    /\ postResult' = "ok"
    /\ pc' = "record"
    /\ UNCHANGED <<config, interruptedAt, now, last_alert, qi, metric, status, readFailed, sentAt,
                   checked>>

\* Variant of PostRaises: the exception is not caught and leaves monitor().
PostRaisesUncaught ==
    /\ pc = "post"
    /\ postResult' = "failed"
    /\ pc' = "crashed"
    /\ UNCHANGED <<config, interruptedAt, now, last_alert, qi, metric, status, readFailed, sentAt,
                   checked>>

\* Variant of PostRaises: the POST is attempted again after a failure.
PostRaisesRetry ==
    /\ pc = "post"
    /\ postResult' = "failed"
    /\ pc' = "post"
    /\ UNCHANGED <<config, interruptedAt, now, last_alert, qi, metric, status, readFailed, sentAt,
                   checked>>

\* requests.post raises requests.RequestException; send_alert prints the
\* error and returns.
PostRaises ==
    /\ pc = "post"
    /\ postResult' = "failed"
    /\ pc' = "record"
    /\ UNCHANGED <<config, interruptedAt, now, last_alert, qi, metric, status, readFailed, sentAt,
                   checked>>

\* self.last_alert[key] = datetime.utcnow(), then the check returns.
Record ==
    /\ pc = "record"
    /\ last_alert' = RecordAlert(last_alert, CurKey, now)
    /\ Return
    /\ UNCHANGED <<config, interruptedAt, now, sentAt, checked>>

\* time.sleep(self.check_interval), then the next iteration of `while True`.
Sleep ==
    /\ pc = "sleep"
    /\ now + check_interval <= MaxTime
    /\ now' = now + check_interval
    /\ pc' = "read"
    /\ qi' = 1
    /\ metric' = "depth"
    /\ checked' = <<>>
    /\ UNCHANGED <<config, interruptedAt, last_alert, status, readFailed, sentAt, postResult>>

\* Time passes between two steps of the loop (a blocking read or POST, or
\* scheduling).  requests.post(..., timeout=5) lasts less than one step of
\* the grid, so at most one grid line is crossed between the send_alert call
\* and the write of last_alert.  The last guard leaves room for one more
\* Sleep below the horizon.
Tick ==
    /\ Running
    /\ pc \in {"post", "record"} => now = sentAt[CurKey]
    /\ now + 2 * check_interval <= MaxTime
    /\ now' = now + check_interval
    /\ UNCHANGED <<config, interruptedAt, last_alert, pc, qi, metric, status, readFailed,
                   sentAt, postResult, checked>>

\* Variant of Interrupt: an interrupt arriving during the POST is caught by
\* the handler inside send_alert like a failed request.
InterruptSwallowed ==
    /\ Running
    /\ interruptedAt' = pc
    /\ IF pc = "post"
       THEN /\ pc' = "record"
            /\ postResult' = "failed"
            /\ UNCHANGED <<qi, metric, status, readFailed, checked>>
       ELSE /\ pc' = "stopped"
            /\ qi' = 0
            /\ metric' = "none"
            /\ status' = NoStatus
            /\ readFailed' = FALSE
            /\ postResult' = "none"
            /\ checked' = <<>>
    /\ UNCHANGED <<config, now, last_alert, sentAt>>

\* KeyboardInterrupt: raised wherever the loop is; it is no
\* requests.RequestException and no Exception, so no inner handler catches
\* it; the frames of the check and of monitor() are unwound, __main__
\* catches it and prints "Monitoring stopped.".
Interrupt ==
    /\ Running
    /\ pc' = "stopped"
    /\ qi' = 0
    /\ metric' = "none"
    /\ status' = NoStatus
    /\ readFailed' = FALSE
    /\ postResult' = "none"
    /\ checked' = <<>>
    /\ interruptedAt' = pc
    /\ UNCHANGED <<config, now, last_alert, sentAt>>

Next ==
    \/ ReadOk
    \/ ReadRaises
    \/ ScanRaises
    \/ Decide
    \/ PostOk
    \/ PostRaises
    \/ Record
    \/ Sleep
    \/ Tick
    \/ Interrupt

Spec == Init /\ [][Next]_vars

\* The loop under the hypotheses of the re-alerting claim: every read
\* succeeds and finds its metric in breach, and no interrupt arrives.  The
\* loop is one thread that always takes its next step and every sleep
\* returns, hence weak fairness of the loop's steps; time passing by itself
\* is not forced.
LoopStep ==
    \/ ReadBreached
    \/ Decide
    \/ PostOk
    \/ PostRaises
    \/ Record
    \/ Sleep

LiveNext ==
    \/ LoopStep
    \/ Tick

LiveSpec == Init /\ [][LiveNext]_vars /\ WF_vars(LoopStep)

TypeOK ==
    /\ kind \in Kinds
    /\ [kind |-> kind, queue_names |-> queue_names, threshold |-> threshold] \in Configs
    /\ now \in 0..MaxTime
    /\ pc \in {"read", "decide", "post", "record", "sleep", "crashed", "stopped"}
    /\ \A k \in DOMAIN last_alert : last_alert[k] \in 0..now
\* ------------------------------------------------------------ step names

\* The step in which send_alert is called.
SendStep == pc = "decide" /\ pc' \in {"post", "record"}
\* The step that evaluates the status test and the cooldown test.
DecideStep == pc = "decide" /\ pc' \notin {"decide", "stopped"}
\* The entry of the running check's key is absent or older than its cooldown.
OwnEntryExpired ==
    CurKey \notin DOMAIN last_alert \/ now - last_alert[CurKey] > Cooldown(metric)
\* The cooldown windows as the specification states them (minutes).
StatedCooldown(m) ==
    CASE m = "depth" -> 15
      [] m = "failed" -> 30
      [] m = "workers" -> 5
      [] OTHER -> 0

\* ---------------------------------------------------------------- claims

\* C1: two consecutive send_alert calls for one key are always more than the
\* key's cooldown apart (depth 15 min, failed 30 min, workers 5 min), in both
\* monitors and also when a queue name is listed twice.
NoAlertWithinCooldown ==
    [][SendStep =>
        (CurKey \in DOMAIN sentAt => now - sentAt[CurKey] > StatedCooldown(metric))]_vars

\* C1 witness: with the queue listed twice, a second alert for a key has been
\* sent, after the cooldown of the first.
SecondAlertSent ==
    /\ queue_names = <<"a", "a">>
    /\ pc \in {"post", "record"}
    /\ CurKey \in DOMAIN last_alert
    /\ sentAt[CurKey] - last_alert[CurKey] > StatedCooldown(metric)

\* C2 (as claimed): last_alert is written only when the alert was delivered;
\* after a failed POST the entry keeps its previous value.
WrittenOnlyAfterDelivery ==
    [][last_alert' # last_alert => postResult # "failed"]_vars

\* C3 (as claimed): a failed backend read never ends the loop; only an
\* interrupt does.
ReadFailureKeepsLoop == readFailed => pc # "crashed"

\* C4 (as claimed): a failed read is treated as ok: no "critical" status and
\* no alert for that metric in that cycle.
ReadFailureIsOk ==
    readFailed => (status.status # "critical" /\ pc \notin {"post", "record"})

\* C5: a POST that fails with a request error is not fatal: send_alert
\* returns into the same check, the check completes and the loop goes on to
\* the next metric or the sleep; the loop is never ended by a webhook failure.
WebhookFailureNotFatal ==
    /\ [](pc = "crashed" => readFailed /\ postResult = "none")
    /\ [][/\ (pc = "post" /\ postResult' = "failed") =>
                (pc' = "record" /\ qi' = qi /\ metric' = metric /\ status' = status)
          /\ (pc = "record" /\ postResult = "failed" /\ pc' \notin {"record", "stopped"}) =>
                (LET p == NextPos(kind, queue_names, qi, metric) IN
                    pc' = p.pc /\ qi' = p.qi /\ metric' = p.metric)]_vars

\* C5 witness: a POST has failed, send_alert has returned and further checks
\* of the cycle remain.
FailedPostReturned ==
    /\ pc = "record"
    /\ postResult = "failed"
    /\ NextPos(kind, queue_names, qi, metric).pc = "read"

CooldownDecision ==
    [][(DecideStep /\ Breached(status)) =>
        (SendStep <=>
            (CurKey \notin DOMAIN last_alert
                \/ now - last_alert[CurKey] > StatedCooldown(metric)))]_vars

\* C7 witness: a breached metric is being decided when exactly the cooldown
\* has elapsed since its recorded alert.
DecidedAtExactCooldown ==
    /\ pc = "decide"
    /\ Breached(status)
    /\ CurKey \in DOMAIN last_alert
    /\ now - last_alert[CurKey] = StatedCooldown(metric)

\* The timestamps at which an alert for a check of metric m can be recorded
\* with room left below the horizon for its cooldown and one more cycle.
RoomyTimes(m) ==
    {r \in 0..MaxTime : r + StatedCooldown(m) + check_interval <= MaxTime}

\* The checks that own an alert key in some configuration (the Celery worker
\* check maps to the global key whatever the queue).
KeyedChecks ==
    {<<"a", "depth">>, <<"b", "depth">>, <<"a", "failed">>, <<"a", "workers">>}

\* C8: while every check finds its metric in breach and the loop keeps
\* running, every recorded alert for a key is followed by another send_alert
\* call for the same key (as far as the horizon of the clock leaves room for
\* the cooldown and one more cycle).
ReAlertLive ==
    \A c \in KeyedChecks :
        (/\ AlertKey(kind, c[1], c[2]) \in DOMAIN last_alert
         /\ last_alert[AlertKey(kind, c[1], c[2])] \in RoomyTimes(c[2]))
        ~> (/\ pc \in {"post", "record"}
            /\ metric = c[2]
            /\ CurKey = AlertKey(kind, c[1], c[2]))

\* C8 witness: under persistent breach a key has been alerted a second time.
ReAlerted ==
    /\ pc = "record"
    /\ CurKey \in DOMAIN last_alert
    /\ now - last_alert[CurKey] > StatedCooldown(metric)
    /\ last_alert[CurKey] \in RoomyTimes(metric)

\* C9: a step changes at most the entry of the running check's key, and a
\* breached metric whose own entry is absent or expired alerts whatever the
\* other keys' entries are.
KeysIndependent ==
    [][/\ \A k \in (DOMAIN last_alert \cup DOMAIN last_alert') \ {CurKey} :
            /\ k \in DOMAIN last_alert
            /\ k \in DOMAIN last_alert'
            /\ last_alert'[k] = last_alert[k]
       /\ (DecideStep /\ Breached(status) /\ OwnEntryExpired) => SendStep]_vars

\* C9 witness: a worker alert for queue a was recorded within the cooldown of
\* the depth alert for a, whose entry is intact.
WorkerAlertDuringDepthCooldown ==
    /\ kind = "rq"
    /\ {"a:depth", "a:workers"} \subseteq DOMAIN last_alert
    /\ last_alert["a:workers"] > last_alert["a:depth"]
    /\ last_alert["a:workers"] - last_alert["a:depth"] <= DepthCooldown

\* C10: a POST is attempted only right after a check found its metric in
\* breach with the cooldown elapsed, at most once per such check, and a failed
\* attempt goes on to the write of last_alert, never back to the POST.
FailedPostDropped ==
    /\ [](pc = "post" => postResult = "none" /\ alert_webhook)
    /\ [][/\ (pc = "post" /\ postResult' # "none") => pc' = "record"
          /\ (pc' = "post" /\ pc # "post") =>
                (pc = "decide" /\ Breached(status) /\ OwnEntryExpired)
          /\ (pc = "record" /\ pc' # "record") => pc' # "post"]_vars

\* C10 witness: the POST of a repeated alert for a key failed and the check
\* has moved on to the write of last_alert.
RepeatedAlertPostFailed ==
    /\ pc = "record"
    /\ postResult = "failed"
    /\ CurKey \in DOMAIN last_alert
\* C11: an interrupt arriving at any point of the loop (read, decide, POST,
\* write of last_alert, sleep) ends the loop at once: no handler swallows it,
\* the monitor stops without an uncaught exception and last_alert is left as
\* it was.
InterruptStopsCleanly ==
    /\ [](interruptedAt # "none" => pc = "stopped")
    /\ [](Running => ENABLED Interrupt)
    /\ [][interruptedAt' # interruptedAt =>
            /\ interruptedAt' = pc
            /\ pc' = "stopped"
            /\ last_alert' = last_alert]_vars

\* C11 witness: the interrupt arrived during the webhook POST and the monitor
\* stopped.
InterruptedDuringPost ==
    /\ pc = "stopped"
    /\ interruptedAt = "post"
\* C12: send_alert is called only for a status other than "ok": a check whose
\* status is "ok" sends nothing and leaves last_alert unchanged; the
\* failed-job status is "warning" iff the count is nonzero and the worker
\* status is "critical" iff the count of live workers is zero.
OnlyAlertWorthyDispatched ==
    /\ [](pc \in {"post", "record"} => status.status \in {"alert", "warning", "critical"})
    /\ [](status.metric = "failed" =>
            /\ (status.status = "warning") <=> (status.value # 0)
            /\ (status.status = "ok") <=> (status.value = 0))
    /\ [](status.metric = "workers" =>
            /\ (status.status = "critical") <=> (status.value = 0)
            /\ (status.status = "ok") <=> (status.value > 0))
    /\ [][status.status = "ok" =>
            (~SendStep /\ last_alert' = last_alert /\ sentAt' = sentAt)]_vars

\* C12 witness: a worker check with status "ok" is being decided while the
\* entry of its key is older than the cooldown, so only the status keeps it
\* from alerting.
OkCheckWithExpiredEntry ==
    /\ pc = "decide"
    /\ status.metric = "workers"
    /\ status.status = "ok"
    /\ CurKey \in DOMAIN last_alert
    /\ now - last_alert[CurKey] > StatedCooldown("workers")
\* C13: with no webhook configured no POST is ever attempted, yet every
\* qualifying alert is still sent to the console (send_alert is called) and
\* its timestamp is written, and a breach within the cooldown is suppressed
\* as with a webhook.
ConsoleOnlySink ==
    /\ [](~alert_webhook => (pc # "post" /\ postResult = "none"))
    /\ [][~alert_webhook =>
            /\ (DecideStep /\ Breached(status) /\ OwnEntryExpired) =>
                    /\ pc' = "record"
                    /\ CurKey \in DOMAIN sentAt'
                    /\ sentAt'[CurKey] = now
            /\ (DecideStep /\ Breached(status) /\ ~OwnEntryExpired) => ~SendStep
            /\ (pc = "record" /\ pc' \notin {"record", "stopped"}) =>
                    /\ CurKey \in DOMAIN last_alert'
                    /\ last_alert'[CurKey] = now]_vars

\* C13 witness: without a webhook an alert was recorded, and a breach of the
\* same key within the cooldown is being decided.
ConsoleAlertInCooldown ==
    /\ ~alert_webhook
    /\ pc = "decide"
    /\ Breached(status)
    /\ CurKey \in DOMAIN last_alert
    /\ now - last_alert[CurKey] <= StatedCooldown(metric)
    /\ now > last_alert[CurKey]
\* C14: last_alert starts empty, holds exactly the keys an alert was sent for
\* (the key of a check that is between its send_alert call and its write
\* excepted, also when an interrupt ends the monitor there), never loses a
\* key and never replaces a timestamp by an earlier one.
EntriesLazyAndKept ==
    /\ last_alert = <<>>
    /\ [](DOMAIN last_alert \subseteq DOMAIN sentAt)
    /\ [](pc \in {"read", "decide", "sleep", "crashed"} =>
            DOMAIN sentAt = DOMAIN last_alert)
    /\ [](pc \in {"post", "record"} =>
            DOMAIN sentAt = DOMAIN last_alert \cup {CurKey})
    /\ []((pc = "stopped" /\ interruptedAt \notin {"post", "record"}) =>
            DOMAIN sentAt = DOMAIN last_alert)
    /\ [](\A k \in DOMAIN last_alert : last_alert[k] <= now)
    /\ [][\A k \in DOMAIN last_alert :
            /\ k \in DOMAIN last_alert'
            /\ last_alert'[k] >= last_alert[k]]_vars

\* C14 witness: a metric that alerted earlier is back to "ok" and the entry
\* of its key is still there.
RecoveredKeepsEntry ==
    /\ pc = "decide"
    /\ status.status = "ok"
    /\ CurKey \in DOMAIN last_alert
\* The checks of one cycle as the specification lists them: RQ checks depth,
\* failed jobs and workers of each queue in list order; Celery checks the
\* depth of each queue in list order and then the workers once.
StatedCycle(k, names) ==
    IF k = "rq"
    THEN [j \in 1..(3 * Len(names)) |->
            <<((j - 1) \div 3) + 1,
              CASE (j - 1) % 3 = 0 -> "depth"
                [] (j - 1) % 3 = 1 -> "failed"
                [] OTHER -> "workers">>]
    ELSE [j \in 1..(Len(names) + 1) |->
            IF j <= Len(names) THEN <<j, "depth">> ELSE <<0, "workers">>]

IsPrefix(s, t) == Len(s) <= Len(t) /\ \A i \in 1..Len(s) : s[i] = t[i]

\* C15: the checks of a cycle run one after another in the stated order, each
\* once; the sleep is reached only when all of them have run, a new cycle
\* starts only through the sleep, and the Celery worker check is one check
\* with the global key "workers".
CycleOrder ==
    /\ [](IsPrefix(checked, StatedCycle(kind, queue_names)))
    /\ [](pc = "sleep" => checked = StatedCycle(kind, queue_names))
    /\ [](pc = "read" =>
            /\ Len(checked) < Len(StatedCycle(kind, queue_names))
            /\ StatedCycle(kind, queue_names)[Len(checked) + 1] = <<qi, metric>>)
    /\ [](pc \in {"decide", "post", "record"} =>
            /\ Len(checked) > 0
            /\ checked[Len(checked)] = <<qi, metric>>)
    /\ []((kind = "celery" /\ metric = "workers") => (qi = 0 /\ CurKey = "workers"))
    /\ [][(checked # <<>> /\ checked' = <<>> /\ pc' # "stopped") =>
            (pc = "sleep" /\ pc' = "read" /\ now' >= now + check_interval)]_vars

\* C15 witness: the Celery monitor has finished the checks of a later cycle
\* and is about to sleep.
LaterCycleComplete ==
    /\ kind = "celery"
    /\ pc = "sleep"
    /\ now >= check_interval
    /\ checked = StatedCycle(kind, queue_names)
====
